---- MODULE Spec2Model ----
(***************************************************************************)
(* State-machine model of drivers/watchdog/tegra_wdt.c: one watchdog       *)
(* instance (struct tegra_wdt), the timer/reset registers it programs, the *)
(* character-device handlers (open, write, ioctl, release), the interrupt  *)
(* handler, the reboot notifier and suspend/resume.                        *)
(*                                                                         *)
(* The two register backends of the source are the two branches of the     *)
(* preprocessor switch: CONFIG_ARCH_TEGRA_2x_SOC ("T2", a timer plus a     *)
(* reset-source register) and CONFIG_ARCH_TEGRA_3x_SOC ("T3", a counter    *)
(* block with an unlock register).                                         *)
(***************************************************************************)
EXTENDS Integers, Sequences, FiniteSets, TLC

(* ------------------------------------------------------------------ *)
(* Program constants                                                    *)
(* ------------------------------------------------------------------ *)
MIN_WDT_PERIOD == 5
MAX_WDT_PERIOD == 1000
TMR_SRC_START == 7
WDT_DEFAULT_TIME == 60

WDT_DISABLED == 1
WDT_ENABLED == 2
WDT_KERNEL_HEARTBEAT == 4

\* TIMER_EN is bit 31 and TIMER_PERIODIC bit 30 of the PTV word; the low 30
\* bits hold the period in microseconds
TIMER_PERIOD_SPAN == 1073741824
WDT_EN == 32
WDT_SEL_TMR1 == 0
WDT_SYS_RST == 4
WDT_CFG_PERIOD == 16
WDT_CFG_PMC2CAR_RST_EN == 32768
WDT_CFG_FIQ_INT_EN == 8192
MAX_NR_CPU_WDT == 4

WDIOS_DISABLECARD == 1
WDIOS_ENABLECARD == 2

EBUSY == 16
EFAULT == 14
EINVAL == 22
ENOTTY == 25
ENOENT == 2
ENODEV == 19
ENOMEM == 12

SYS_DOWN == 1
SYS_HALT == 2
SYS_POWER_OFF == 3

(* ------------------------------------------------------------------ *)
(* Bounds of the model                                                  *)
(* ------------------------------------------------------------------ *)
\* how far below MIN_WDT_PERIOD and above MAX_WDT_PERIOD the requested
\* timeouts and the heartbeat module parameter range
Slack == 1
\* longest write() buffer
MaxLen == 2
\* the count of timer expiries since the last reload saturates here
MaxElapsed == 2
\* the interrupts counted in irq_counter by a handler racing with pings
MaxIrqCounter == 2

(* ------------------------------------------------------------------ *)
(* Bit operations on the status word and on 32-bit register values      *)
(* ------------------------------------------------------------------ *)
\* (word & bit) != 0, for a single-bit mask
Has(word, bit) == (word \div bit) % 2 = 1

\* word |= bit
SetBit(word, bit) == IF Has(word, bit) THEN word ELSE word + bit

\* word &= ~bit
ClrBit(word, bit) == IF Has(word, bit) THEN word - bit ELSE word

\* a clamp that forgets the lower bound
clamp_upper_only(val, lo, hi) == IF val < hi THEN val ELSE hi

\* clamp(val, lo, hi) of include/linux/kernel.h: min(max(val, lo), hi)
clamp(val, lo, hi) ==
    LET m == IF val > lo THEN val ELSE lo
    IN  IF m < hi THEN m ELSE hi

\* timeout * 1000000ul in the unsigned 32-bit arithmetic of the source, as
\* the two 16-bit halves of the product (1000000 = 15 * 65536 + 16960):
\* what does not fit into 32 bits is dropped
MulMicro(timeout) ==
    LET p == timeout * 16960
    IN  [hi |-> (timeout * 15 + p \div 65536) % 65536, lo |-> p % 65536]

\* a period that divides the two halves of the product one by one and
\* forgets the half of the upper one
PeriodUs_drops_upper_half(timeout, div) ==
    MulMicro(timeout).hi + MulMicro(timeout).lo \div div

\* u32 val = wdt->timeout * 1000000ul / div, for div 2 or 4
PeriodUs(timeout, div) ==
    MulMicro(timeout).hi * (65536 \div div) + MulMicro(timeout).lo \div div

\* a PTV word: bit 31 (TIMER_EN), bit 30 (TIMER_PERIODIC), bits 29..0
PtvZero == [en |-> FALSE, periodic |-> FALSE, period |-> 0]

\* val |= (TIMER_EN | TIMER_PERIODIC): bits 31 and 30 are forced to one, the
\* low 30 bits are those of val
TimerWord(val) == [en |-> TRUE, periodic |-> TRUE, period |-> val % TIMER_PERIOD_SPAN]

Min(a, b) == IF a < b THEN a ELSE b

(* ------------------------------------------------------------------ *)
(* State                                                                *)
(* ------------------------------------------------------------------ *)
VARIABLES
    soc,        \* "T2" (CONFIG_ARCH_TEGRA_2x_SOC) or "T3" (CONFIG_ARCH_TEGRA_3x_SOC)
    hb_config,  \* CONFIG_TEGRA_WATCHDOG_ENABLE_HEARTBEAT
    nowayout,   \* module parameter nowayout
    heartbeat,  \* module parameter heartbeat
    pdev_id,    \* pdev->id of the probed platform device
    res_irq,    \* the platform device carries an IRQ resource
    fiq,        \* CONFIG_TEGRA_FIQ_DEBUGGER
    res,        \* what probe and remove acquired and released, in order
    registry,   \* the indices i at which tegra_wdt[i] points to the instance
    phase,      \* "unprobed" | "probed"
    wdt,        \* struct tegra_wdt: users, timeout, status, way_out_ok, irq_counter
    hw,         \* the timer / watchdog registers, the interrupt line, the reset output
    sessions,   \* number of struct file currently open on the misc device
    opening,    \* an open() has won test_and_set_bit and has not returned yet
    suspended,  \* between tegra_wdt_suspend and tegra_wdt_resume
    lock,       \* the spinlock of tegra_wdt_ioctl: "none" or the thread holding it
    thr,        \* the calls two threads of the session are inside, statement by statement
    last        \* the call that ran last: [op, arg, ret, out]

vars == <<soc, hb_config, nowayout, heartbeat, pdev_id, res_irq, fiq, res, registry, phase,
          wdt, hw, sessions, opening, suspended, lock, thr, last>>

config == <<soc, hb_config, nowayout, heartbeat, pdev_id, res_irq, fiq>>

\* what the handlers that are modelled as one step leave alone
conc == <<lock, thr>>

(* ------------------------------------------------------------------ *)
(* Registers: what one writel() does to the hardware                    *)
(* ------------------------------------------------------------------ *)
\* writel(val, wdt->wdt_timer + TIMER_PTV): loads the period and, with
\* TIMER_EN, restarts the countdown
WritePTV(h, val) == [h EXCEPT !.ptv = val, !.elapsed = 0]

\* writel(TIMER_PCR_INTR, wdt->wdt_timer + TIMER_PCR): clears the pending
\* timer interrupt
WritePCR(h) == [h EXCEPT !.pcr_intr = FALSE]

\* T2: writel(val, wdt->wdt_source), the reset-source register
WriteSRC(h, val) == [h EXCEPT !.src = val]

\* T3: writel(WDT_UNLOCK_PATTERN, wdt->wdt_source + WDT_UNLOCK)
WriteUNLOCK(h) == [h EXCEPT !.unlocked = TRUE]

\* T3: writel(WDT_CMD_START_COUNTER, wdt->wdt_source + WDT_CMD): (re)starts
\* the counter, which clears the expiry count and the interrupt status
WriteCMDStart(h) ==
    [h EXCEPT !.run = TRUE, !.expc = 0, !.intr_stat = FALSE, !.unlocked = FALSE]

\* T3: writel(WDT_CMD_DISABLE_COUNTER, wdt->wdt_source + WDT_CMD): honoured
\* only directly after the unlock pattern
WriteCMDDisable(h) ==
    [h EXCEPT !.run = IF h.unlocked THEN FALSE ELSE h.run, !.unlocked = FALSE]

\* T3: writel(val, wdt->wdt_source + WDT_CFG); like every write to the
\* block other than the unlock pattern it ends the unlocked window
WriteCFG(h, val) == [h EXCEPT !.cfg = val, !.unlocked = FALSE]

\* enable_irq(): one level of disable is undone; on a line that is not
\* disabled the kernel warns and changes nothing
enable_irq(h) ==
    [h EXCEPT !.depth = IF h.depth > 0 THEN h.depth - 1 ELSE 0,
              !.unbalanced = h.unbalanced \/ h.depth = 0]

\* disable_irq_nosync()
disable_irq_nosync(h) == [h EXCEPT !.depth = h.depth + 1]

\* the free-running timer counts
TimerRunning(h) == h.ptv.en

\* an unacknowledged run of expiries will reset the machine
Armed ==
    IF soc = "T2" THEN TimerRunning(hw) /\ Has(hw.src, WDT_EN)
                  ELSE TimerRunning(hw) /\ hw.run

(* ------------------------------------------------------------------ *)
(* Register backend                                                     *)
(* ------------------------------------------------------------------ *)
\* wdt->tmrsrc = (TMR_SRC_START + pdev->id) % 10
tmrsrc == (TMR_SRC_START + pdev_id) % 10

tegra_wdt_enable_T2(w, h) ==
    LET h1 == WritePTV(h, TimerWord(PeriodUs(w.timeout, 2)))
    IN  WriteSRC(h1, WDT_EN + WDT_SEL_TMR1 + WDT_SYS_RST)

tegra_wdt_disable_T2(h) == WritePTV(WriteSRC(h, 0), PtvZero)

\* val = wdt->tmrsrc | WDT_CFG_PERIOD | WDT_CFG_PMC2CAR_RST_EN, and
\* WDT_CFG_FIQ_INT_EN with CONFIG_TEGRA_FIQ_DEBUGGER
CfgWord ==
    tmrsrc + WDT_CFG_PERIOD + WDT_CFG_PMC2CAR_RST_EN
      + (IF fiq THEN WDT_CFG_FIQ_INT_EN ELSE 0)

tegra_wdt_enable_T3(w, h) ==
    LET h1 == WritePCR(h)
        h2 == WritePTV(h1, TimerWord(PeriodUs(w.timeout, 4)))
        h3 == WriteCMDStart(h2)
    IN  WriteCFG(h3, CfgWord)

tegra_wdt_disable_T3(h) == WritePTV(WriteCMDDisable(WriteUNLOCK(h)), PtvZero)

tegra_wdt_enable(w, h) ==
    IF soc = "T2" THEN tegra_wdt_enable_T2(w, h) ELSE tegra_wdt_enable_T3(w, h)

tegra_wdt_disable(h) ==
    IF soc = "T2" THEN tegra_wdt_disable_T2(h) ELSE tegra_wdt_disable_T3(h)

\* returns the instance and the hardware after the ping
tegra_wdt_ping_T2(w, h) ==
    LET h1 == tegra_wdt_enable_T2(w, h)
    IN  IF w.irq_counter # 0
        THEN [w |-> [w EXCEPT !.irq_counter = 0], h |-> enable_irq(WritePCR(h1))]
        ELSE [w |-> w, h |-> h1]

tegra_wdt_ping_T3(w, h) == [w |-> w, h |-> WriteCMDStart(h)]

tegra_wdt_ping(w, h) ==
    IF soc = "T2" THEN tegra_wdt_ping_T2(w, h) ELSE tegra_wdt_ping_T3(w, h)

(* ------------------------------------------------------------------ *)
(* Inputs                                                               *)
(* ------------------------------------------------------------------ *)
\* values of the heartbeat module parameter: the default and a value outside
\* the documented range (module_param does not check it)
HeartbeatValues == {WDT_DEFAULT_TIME, MAX_WDT_PERIOD + Slack}

\* values a caller passes to WDIOC_SETTIMEOUT
TimeoutRequests ==
    {MIN_WDT_PERIOD - Slack, MIN_WDT_PERIOD + Slack, MAX_WDT_PERIOD + Slack}

\* option words a caller passes to WDIOC_SETOPTIONS
OptionWords == {0, WDIOS_DISABLECARD, WDIOS_ENABLECARD,
                WDIOS_DISABLECARD + WDIOS_ENABLECARD}

\* a user pointer: readable and writable, read-only, or unmapped
UserPtrs == {"rw", "ro", "bad"}
get_user_ok(ptr) == ptr # "bad"
put_user_ok(ptr) == ptr = "rw"

\* write() buffers: the empty buffer and buffers of 'V' and 'x' bytes
SeqsUpTo(n) == UNION {[1..k -> {"V", "x"}] : k \in 0..n}
Buffers == SeqsUpTo(MaxLen)

\* what write() is called with: a readable buffer, or a length with a data
\* pointer that cannot be read (shown as a buffer of '?')
WriteInputs ==
    {[buf |-> b, ptr |-> "rw"] : b \in Buffers}
      \cup {[buf |-> [i \in 1..k |-> "?"], ptr |-> "bad"] : k \in 0..MaxLen}

\* codes of the reboot notifier chain
RebootCodes == {SYS_DOWN, SYS_HALT, SYS_POWER_OFF}

HwOff ==
    [ptv |-> PtvZero, pcr_intr |-> FALSE, src |-> 0, cfg |-> 0, run |-> FALSE,
     unlocked |-> FALSE, intr_stat |-> FALSE, expc |-> 0, elapsed |-> 0,
     depth |-> 0, unbalanced |-> FALSE, reset |-> FALSE]

\* kzalloc(sizeof(*wdt))
WdtZero ==
    [users |-> 0, timeout |-> 0, status |-> 0, way_out_ok |-> 0, irq_counter |-> 0,
     irq |-> 0]

\* the platform devices a board registers: the single "tegra_wdt" device
\* with id -1 on Tegra 2, tegra_wdt0 .. tegra_wdt3 on Tegra 3 (the first,
\* which is the heartbeat candidate, and one of the others)
PlatformIds(s) == IF s = "T2" THEN {-1} ELSE {0, 1}

Call(op, arg, ret, out) == [op |-> op, arg |-> arg, ret |-> ret, out |-> out]

\* two threads that share the session's file descriptor
Threads == {"a", "b"}

\* the contexts that run driver code at once: the threads and the interrupt
Contexts == Threads \cup {"irq"}

\* a thread that is in no call
ThrIdle == [op |-> "none", arg |-> 0, pc |-> 0, val |-> 0]

(* ------------------------------------------------------------------ *)
(* Initial state: the driver is loaded, the device is not probed yet    *)
(* ------------------------------------------------------------------ *)
Init ==
    /\ soc \in {"T2", "T3"}
    /\ hb_config \in BOOLEAN
    /\ nowayout \in BOOLEAN
    /\ heartbeat \in HeartbeatValues
    /\ pdev_id \in PlatformIds(soc)
    /\ res_irq \in BOOLEAN
    /\ fiq = FALSE
    /\ res = <<>>
    /\ registry = {}
    /\ phase = "unprobed"
    /\ wdt = WdtZero
    /\ hw = HwOff
    /\ sessions = 0
    /\ opening = FALSE
    /\ suspended = FALSE
    /\ lock = "none"
    /\ thr = [t \in Contexts |-> ThrIdle]
    /\ last = Call("load", 0, 0, <<>>)

(* ------------------------------------------------------------------ *)
(* Lifecycle                                                            *)
(* ------------------------------------------------------------------ *)
\* int is_heartbeat_wdt = 1 (T2) or !(pdev->id) (T3), only with
\* CONFIG_TEGRA_WATCHDOG_ENABLE_HEARTBEAT
is_heartbeat_wdt ==
    hb_config /\ (IF soc = "T2" THEN TRUE ELSE pdev_id = 0)

\* the resource checks of probe that return -ENOENT
ProbeResourcesOk ==
    /\ ~(pdev_id = 0 /\ ~res_irq)
    /\ ~(pdev_id = -1 /\ ~res_irq)

\* res_irq->start, the interrupt number of the platform device
IRQ_START == 1

\* wdt->irq = -1: no interrupt requested
IRQ_NONE == -1

\* entries of the resource log
Acq(r) == [k |-> "acq", r |-> r]
Rel(r) == [k |-> "rel", r |-> r]
HwDisable == [k |-> "hw", r |-> "disable"]

\* what probe acquires, in program order: the instance (kzalloc), the two
\* memory regions, their two mappings, with CONFIG_TEGRA_FIQ_DEBUGGER the
\* interrupt-controller region and its mapping, the interrupt, the reboot
\* notifier, the misc device
Resources ==
    <<"wdt", "mem_src", "mem_wdt", "map_src", "map_timer", "mem_int", "map_int",
      "irq", "notifier", "miscdev">>

\* the check after which a failed request r leaves probe: both regions are
\* requested before the first check, both mappings before the second
Stage(r) ==
    CASE r = "wdt" -> 1
      [] r \in {"mem_src", "mem_wdt"} -> 2
      [] r \in {"map_src", "map_timer"} -> 3
      [] r = "mem_int" -> 4
      [] r = "map_int" -> 5
      [] r = "irq" -> 6
      [] r = "notifier" -> 7
      [] r = "miscdev" -> 8
      [] OTHER -> 9

\* probe requests r at all: the interrupt only with an IRQ resource, the
\* interrupt-controller region only inside that block and with
\* CONFIG_TEGRA_FIQ_DEBUGGER
Attempted(r) ==
    CASE r \in {"mem_int", "map_int"} -> fiq /\ res_irq
      [] r = "irq" -> res_irq
      [] OTHER -> TRUE

\* the requests of probe that can fail
FailPoints == {Resources[i] : i \in {j \in 1..Len(Resources) : Attempted(Resources[j])}}

\* the subsequence of seq whose elements satisfy Keep
RECURSIVE SelectIn(_, _)
SelectIn(seq, keep) ==
    IF seq = <<>> THEN <<>>
    ELSE (IF Head(seq) \in keep THEN <<Head(seq)>> ELSE <<>>)
            \o SelectIn(Tail(seq), keep)

\* what probe holds when the request f fails (f = "none": no request fails)
Held(f) ==
    {r \in FailPoints : r # f /\ Stage(r) <= Stage(f)}

\* wdt->irq when probe reaches fail or returns: 0 from kzalloc until the
\* line wdt->irq = -1 inside if (res_irq != NULL), after the
\* CONFIG_TEGRA_FIQ_DEBUGGER block
IrqField(f) ==
    IF ~res_irq \/ Stage(f) < Stage("irq") THEN 0
    ELSE IF f = "irq" THEN IRQ_NONE
    ELSE IRQ_START

\* the local res_int_base is not NULL: with CONFIG_TEGRA_FIQ_DEBUGGER it
\* holds the platform resource until request_mem_region overwrites it
ResIntBase(f) ==
    /\ fiq
    /\ (res_irq /\ Stage(f) >= Stage("mem_int")) => f # "mem_int"

\* ret at the goto fail / return of the failed request f
FailRet(f) ==
    CASE f \in {"wdt", "map_src", "map_timer"} -> 0 - ENOMEM
      [] f \in {"mem_src", "mem_wdt"} -> 0 - EBUSY
      [] f \in {"mem_int", "map_int"} -> 0      \* goto fail with ret still 0
      [] OTHER -> 0 - EBUSY                      \* the error the failed call returned

\* the label fail of tegra_wdt_probe
ProbeFailPath(f) ==
    (IF IrqField(f) # IRQ_NONE THEN <<Rel("irq")>> ELSE <<>>)
      \o (IF "map_src" \in Held(f) THEN <<Rel("map_src")>> ELSE <<>>)
      \o (IF "map_timer" \in Held(f) THEN <<Rel("map_timer")>> ELSE <<>>)
      \o (IF "map_int" \in Held(f) THEN <<Rel("map_int")>> ELSE <<>>)
      \o (IF "mem_src" \in Held(f) THEN <<Rel("mem_src")>> ELSE <<>>)
      \o (IF "mem_wdt" \in Held(f) THEN <<Rel("mem_wdt")>> ELSE <<>>)
      \o (IF ResIntBase(f) THEN <<Rel("mem_int")>> ELSE <<>>)
      \o <<Rel("wdt")>>

\* one run of tegra_wdt_probe past the resource checks in which the request
\* f fails: the return value and the log of what was acquired and released
ProbeRun(f) ==
    LET got == [i \in 1..Len(SelectIn(Resources, Held(f))) |->
                   Acq(SelectIn(Resources, Held(f))[i])]
    IN  IF f = "none" THEN [ret |-> 0, log |-> got]
        ELSE IF f = "wdt" THEN [ret |-> FailRet(f), log |-> <<>>]
        ELSE IF f = "miscdev"
        THEN [ret |-> FailRet(f),
              log |-> got \o <<Rel("notifier")>> \o ProbeFailPath(f)]
        ELSE [ret |-> FailRet(f), log |-> got \o ProbeFailPath(f)]

\* a probe that trusts the boot loader to have left the watchdog off
probe_hw_no_disable(h) ==
    IF soc = "T2" THEN WritePCR(h) ELSE WriteCMDStart(WritePCR(h))

\* the register writes of probe: tegra_wdt_disable, the timer interrupt
\* cleared and, on Tegra 3, WDT_CMD_START_COUNTER
probe_hw(h) ==
    LET h1 == WritePCR(tegra_wdt_disable(h))
    IN  IF soc = "T2" THEN h1 ELSE WriteCMDStart(h1)

\* a heartbeat block that does not take the device for the kernel
probe_heartbeat_leaves_users(w) ==
    [w EXCEPT !.status = WDT_ENABLED + WDT_KERNEL_HEARTBEAT,
              !.timeout = heartbeat]

\* the fields probe writes for the heartbeat instance; set_bit(1,
\* &wdt->users) makes every later open lose test_and_set_bit
probe_heartbeat(w) ==
    [w EXCEPT !.status = WDT_ENABLED + WDT_KERNEL_HEARTBEAT,
              !.timeout = heartbeat,
              !.users = 1]

\* tegra_wdt[pdev->id] = wdt, compiled in on Tegra 3 only; the index is
\* pdev->id as it is
probe_registry(r) == IF soc = "T2" THEN r ELSE r \cup {pdev_id}

\* tegra_wdt_remove does not write tegra_wdt[]
remove_registry(r) == r

\* if (pdev->id < -1 && pdev->id > 3): no id is below -1 and above 3
ProbeIdRejected == pdev_id < -1 /\ pdev_id > 3

\* the path of tegra_wdt_probe on which every request succeeds
ProbeOk ==
    /\ LET h2 == probe_hw(hw)
           w1 == [WdtZero EXCEPT !.status = WDT_DISABLED, !.irq = IrqField("none")]
           w2 == probe_heartbeat(w1)
       IN  IF is_heartbeat_wdt
           THEN wdt' = w2 /\ hw' = tegra_wdt_enable(w2, h2)
           ELSE wdt' = w1 /\ hw' = h2
    /\ phase' = "probed"
    /\ last' = Call("probe", pdev_id, 0, <<>>)
    /\ res' = ProbeRun("none").log
    /\ registry' = probe_registry(registry)
    /\ UNCHANGED <<config, conc, sessions, opening, suspended>>

\* tegra_wdt_probe: the resource check, then the path on which every
\* request succeeds
tegra_wdt_probe ==
    /\ phase = "unprobed"
    /\ last.op = "load"
    /\ IF ProbeIdRejected \/ ~ProbeResourcesOk
       THEN /\ last' = Call("probe", pdev_id,
                            IF ProbeIdRejected THEN 0 - ENODEV ELSE 0 - ENOENT, <<>>)
            /\ UNCHANGED <<config, conc, res, registry, phase, wdt, hw, sessions, opening, suspended>>
       ELSE ProbeOk

\* tegra_wdt_probe past the resource checks with one request failing
tegra_wdt_probe_fail ==
    /\ phase = "unprobed"
    /\ last.op = "load"
    /\ ~ProbeIdRejected
    /\ ProbeResourcesOk
    /\ \E f \in FailPoints :
          /\ res' = ProbeRun(f).log
          /\ last' = Call("probe", pdev_id, ProbeRun(f).ret, <<f>>)
          /\ hw' = IF Stage(f) > Stage("map_timer") THEN probe_hw(hw) ELSE hw
    /\ phase' = "failed"
    /\ UNCHANGED <<config, conc, registry, wdt, sessions, opening, suspended>>

\* tegra_wdt_remove
tegra_wdt_remove ==
    /\ phase = "probed"
    /\ ~hw.reset
    /\ hw' = tegra_wdt_disable(hw)
    /\ res' = res \o <<HwDisable, Rel("notifier"), Rel("miscdev")>>
                  \o (IF wdt.irq # IRQ_NONE THEN <<Rel("irq")>> ELSE <<>>)
                  \o <<Rel("map_src"), Rel("map_timer")>>
                  \o (IF fiq /\ res_irq THEN <<Rel("map_int")>> ELSE <<>>)
                  \o <<Rel("mem_src"), Rel("mem_wdt")>>
                  \o (IF fiq THEN <<Rel("mem_int")>> ELSE <<>>)
                  \o <<Rel("wdt")>>
    /\ phase' = "removed"
    /\ last' = Call("remove", pdev_id, 0, <<>>)
    /\ registry' = remove_registry(registry)
    /\ UNCHANGED <<config, conc, wdt, sessions, opening, suspended>>

\* the calls below run on a probed, running machine
Live == phase = "probed" /\ ~hw.reset /\ ~suspended

\* a notifier that leaves a nowayout watchdog running
notifier_call_honours_nowayout(code, h) ==
    IF (code = SYS_DOWN \/ code = SYS_HALT) /\ ~nowayout
    THEN tegra_wdt_disable(h) ELSE h

\* the hardware after wdt->notifier.notifier_call(this, code, dev)
notifier_call(code, h) ==
    IF code = SYS_DOWN \/ code = SYS_HALT THEN tegra_wdt_disable(h) ELSE h

tegra_wdt_notify ==
    /\ Live
    /\ \E code \in RebootCodes :
          /\ hw' = notifier_call(code, hw)
          /\ last' = Call("notify", code, 0, <<>>)
    /\ UNCHANGED <<config, conc, res, registry, phase, wdt, sessions, opening, suspended>>

\* the call record keeps whether the hardware was armed at the call
tegra_wdt_suspend ==
    /\ Live
    /\ hw' = tegra_wdt_disable(hw)
    /\ suspended' = TRUE
    /\ last' = Call("suspend", IF Armed THEN 1 ELSE 0, 0, <<>>)
    /\ UNCHANGED <<config, conc, res, registry, phase, wdt, sessions, opening>>

tegra_wdt_resume ==
    /\ phase = "probed" /\ ~hw.reset /\ suspended
    /\ hw' = IF Has(wdt.status, WDT_ENABLED) THEN tegra_wdt_enable(wdt, hw) ELSE hw
    /\ suspended' = FALSE
    /\ last' = Call("resume", 0, 0, <<>>)
    /\ UNCHANGED <<config, conc, res, registry, phase, wdt, sessions, opening>>

(* ------------------------------------------------------------------ *)
(* Control protocol: the file operations                                *)
(* ------------------------------------------------------------------ *)
\* tegra_wdt_open after test_and_set_bit(1, &wdt->users) returned 0
tegra_wdt_open(w, h) ==
    LET w1 == [w EXCEPT !.way_out_ok = 0,
                        !.status = SetBit(w.status, WDT_ENABLED),
                        !.timeout = heartbeat]
    IN  [w |-> w1, h |-> tegra_wdt_enable(w1, h)]

\* a release that forgets clear_bit(1, &wdt->users)
tegra_wdt_release_keeps_users(w, h) ==
    LET off == Has(w.status, WDT_ENABLED) /\ ~nowayout /\ w.way_out_ok # 0
    IN  [w |-> IF off THEN [w EXCEPT !.status = WDT_DISABLED] ELSE w,
         h |-> IF off THEN tegra_wdt_disable(h) ELSE h]

\* a release that disarms without asking for the magic character
tegra_wdt_release_no_magic(w, h) ==
    LET off == Has(w.status, WDT_ENABLED) /\ ~nowayout
        w1  == IF off THEN [w EXCEPT !.status = WDT_DISABLED] ELSE w
    IN  [w |-> [w1 EXCEPT !.users = 0],
         h |-> IF off THEN tegra_wdt_disable(h) ELSE h]

\* a release that honours the magic character even under nowayout
tegra_wdt_release_ignores_nowayout(w, h) ==
    LET off == Has(w.status, WDT_ENABLED) /\ w.way_out_ok # 0
        w1  == IF off THEN [w EXCEPT !.status = WDT_DISABLED] ELSE w
    IN  [w |-> [w1 EXCEPT !.users = 0],
         h |-> IF off THEN tegra_wdt_disable(h) ELSE h]

tegra_wdt_release(w, h) ==
    LET off == Has(w.status, WDT_ENABLED) /\ ~nowayout /\ w.way_out_ok # 0
        w1  == IF off THEN [w EXCEPT !.status = WDT_DISABLED] ELSE w
    IN  [w |-> [w1 EXCEPT !.users = 0],
         h |-> IF off THEN tegra_wdt_disable(h) ELSE h]

\* a write that looks at the first byte of the buffer instead of the last
tegra_wdt_write_first_byte(w, h, buf, ptr) ==
    IF Len(buf) = 0
    THEN [w |-> w, h |-> h, ret |-> 0]
    ELSE LET p == tegra_wdt_ping(w, h)
         IN  IF ~get_user_ok(ptr)
             THEN [w |-> p.w, h |-> p.h, ret |-> 0 - EFAULT]
             ELSE [w |-> [p.w EXCEPT !.way_out_ok =
                                 IF buf[1] = "V" THEN 1 ELSE 0],
                   h |-> p.h, ret |-> Len(buf)]

\* buf is the user buffer, len its length; ptr tells whether it can be read
tegra_wdt_write(w, h, buf, ptr) ==
    IF Len(buf) = 0
    THEN [w |-> w, h |-> h, ret |-> 0]
    ELSE LET p == tegra_wdt_ping(w, h)
         IN  IF ~get_user_ok(ptr)
             THEN [w |-> p.w, h |-> p.h, ret |-> 0 - EFAULT]
             ELSE [w |-> [p.w EXCEPT !.way_out_ok =
                                 IF buf[Len(buf)] = "V" THEN 1 ELSE 0],
                   h |-> p.h, ret |-> Len(buf)]

\* put_user(val, arg)
put_user(w, h, val, ptr) ==
    IF put_user_ok(ptr)
    THEN [w |-> w, h |-> h, ret |-> 0, out |-> <<val>>]
    ELSE [w |-> w, h |-> h, ret |-> 0 - EFAULT, out |-> <<>>]

IoctlCmds ==
    {"WDIOC_GETSUPPORT", "WDIOC_GETSTATUS", "WDIOC_KEEPALIVE", "WDIOC_SETTIMEOUT", "WDIOC_GETTIMEOUT",
     "WDIOC_SETOPTIONS", "WDIOC_GETTEMP"}

\* the values the word at arg may hold for each command (an unmapped arg
\* holds none, a command that does not read arg ignores it)
IoctlArgs(cmd, ptr) ==
    IF ptr = "bad" THEN {0}
    ELSE IF cmd = "WDIOC_SETTIMEOUT" THEN TimeoutRequests
    ELSE IF cmd = "WDIOC_SETOPTIONS" THEN OptionWords
    ELSE {0}

\* the kinds of arg pointer that make a difference to each command
IoctlPtrs(cmd) ==
    IF cmd \in {"WDIOC_KEEPALIVE", "WDIOC_GETTEMP"} THEN {"rw"}
    ELSE IF cmd = "WDIOC_SETTIMEOUT" THEN UserPtrs
    ELSE {"rw", "bad"}

\* sizeof(struct watchdog_info): what copy_to_user returns when it copies nothing
SIZEOF_IDENT == 40

ioctl_settimeout(w, h, val, ptr) ==
    IF ~get_user_ok(ptr)
    THEN [w |-> w, h |-> h, ret |-> 0 - EFAULT, out |-> <<>>]
    ELSE LET h1 == tegra_wdt_disable(h)
             w1 == [w EXCEPT !.timeout = clamp(val, MIN_WDT_PERIOD, MAX_WDT_PERIOD)]
             h2 == tegra_wdt_enable(w1, h1)
         IN  \* no break: falls through into WDIOC_GETTIMEOUT
             put_user(w1, h2, w1.timeout, ptr)

\* a WDIOC_SETOPTIONS whose enable branch leaves WDT_DISABLED set
ioctl_setoptions_keeps_disabled(w, h, option, ptr) ==
    IF ~get_user_ok(ptr)
    THEN [w |-> w, h |-> h, ret |-> 0 - EFAULT, out |-> <<>>]
    ELSE IF Has(option, WDIOS_DISABLECARD) /\ ~nowayout
    THEN [w |-> [w EXCEPT !.status =
                     SetBit(ClrBit(w.status, WDT_ENABLED), WDT_DISABLED)],
          h |-> tegra_wdt_disable(h), ret |-> 0, out |-> <<>>]
    ELSE IF Has(option, WDIOS_ENABLECARD)
    THEN [w |-> [w EXCEPT !.status = SetBit(w.status, WDT_ENABLED)],
          h |-> tegra_wdt_enable(w, h), ret |-> 0, out |-> <<>>]
    ELSE [w |-> w, h |-> h, ret |-> 0 - EINVAL, out |-> <<>>]

ioctl_setoptions(w, h, option, ptr) ==
    IF ~get_user_ok(ptr)
    THEN [w |-> w, h |-> h, ret |-> 0 - EFAULT, out |-> <<>>]
    ELSE IF Has(option, WDIOS_DISABLECARD) /\ ~nowayout
    THEN [w |-> [w EXCEPT !.status =
                     SetBit(ClrBit(w.status, WDT_ENABLED), WDT_DISABLED)],
          h |-> tegra_wdt_disable(h), ret |-> 0, out |-> <<>>]
    ELSE IF Has(option, WDIOS_ENABLECARD)
    THEN [w |-> [w EXCEPT !.status =
                     ClrBit(SetBit(w.status, WDT_ENABLED), WDT_DISABLED)],
          h |-> tegra_wdt_enable(w, h), ret |-> 0, out |-> <<>>]
    ELSE [w |-> w, h |-> h, ret |-> 0 - EINVAL, out |-> <<>>]

\* val is the word at arg, ptr tells whether arg can be read and written
tegra_wdt_ioctl(w, h, cmd, val, ptr) ==
    CASE cmd = "WDIOC_GETSUPPORT" ->
            [w |-> w, h |-> h, ret |-> IF put_user_ok(ptr) THEN 0 ELSE SIZEOF_IDENT,
             out |-> <<>>]
      [] cmd = "WDIOC_GETSTATUS" ->     \* and WDIOC_GETBOOTSTATUS, the same case
            put_user(w, h, 0, ptr)
      [] cmd = "WDIOC_KEEPALIVE" ->
            LET p == tegra_wdt_ping(w, h)
            IN  [w |-> p.w, h |-> p.h, ret |-> 0, out |-> <<>>]
      [] cmd = "WDIOC_SETTIMEOUT" -> ioctl_settimeout(w, h, val, ptr)
      [] cmd = "WDIOC_GETTIMEOUT" -> put_user(w, h, w.timeout, ptr)
      [] cmd = "WDIOC_SETOPTIONS" -> ioctl_setoptions(w, h, val, ptr)
      [] OTHER -> [w |-> w, h |-> h, ret |-> 0 - ENOTTY, out |-> <<>>]

\* an open that asks for a new magic close before it tests the bit
open_resets_way_out_first(w) ==
    [busy |-> w.users # 0, w |-> [w EXCEPT !.users = 1, !.way_out_ok = 0]]

\* test_and_set_bit(1, &wdt->users): whether the bit was set, and the
\* instance with the bit set
open_test_and_set(w) == [busy |-> w.users # 0, w |-> [w EXCEPT !.users = 1]]

\* open(): the atomic test_and_set_bit(1, &wdt->users); a loser returns -EBUSY
OpenEnter ==
    /\ Live
    /\ wdt' = open_test_and_set(wdt).w
    /\ IF open_test_and_set(wdt).busy
       THEN /\ last' = Call("open", 0, 0 - EBUSY, <<>>)
            /\ UNCHANGED opening
       ELSE /\ opening' = TRUE
            /\ last' = Call("open_enter", 0, 0, <<>>)
    /\ UNCHANGED <<config, conc, res, registry, phase, hw, sessions, suspended>>

\* open(): the rest of the handler, up to its return
OpenReturn ==
    /\ Live
    /\ opening
    /\ LET r == tegra_wdt_open(wdt, hw)
       IN  wdt' = r.w /\ hw' = r.h
    /\ opening' = FALSE
    /\ sessions' = sessions + 1
    /\ last' = Call("open", 0, 0, <<>>)
    /\ UNCHANGED <<config, conc, res, registry, phase, suspended>>

Release ==
    /\ Live
    /\ sessions > 0
    /\ LET r == tegra_wdt_release(wdt, hw)
       IN  wdt' = r.w /\ hw' = r.h
    /\ sessions' = sessions - 1
    /\ last' = Call("close", 0, 0, <<>>)
    /\ UNCHANGED <<config, conc, res, registry, phase, opening, suspended>>

Write ==
    /\ Live
    /\ sessions > 0
    /\ \E in \in WriteInputs :
          LET r == tegra_wdt_write(wdt, hw, in.buf, in.ptr)
          IN  /\ wdt' = r.w
              /\ hw' = r.h
              /\ last' = Call("write", in.buf, r.ret, <<>>)
    /\ UNCHANGED <<config, conc, res, registry, phase, sessions, opening, suspended>>

Ioctl ==
    /\ Live
    /\ sessions > 0
    /\ \E cmd \in IoctlCmds :
        \E ptr \in IoctlPtrs(cmd) :
        \E val \in IoctlArgs(cmd, ptr) :
          LET r == tegra_wdt_ioctl(wdt, hw, cmd, val, ptr)
          IN  /\ wdt' = r.w
              /\ hw' = r.h
              /\ last' = Call(cmd, val, r.ret, r.out)
    /\ UNCHANGED <<config, conc, res, registry, phase, sessions, opening, suspended>>

\* ioctl(fd, WDIOC_KEEPALIVE)
KeepAlive ==
    /\ Live
    /\ sessions > 0
    /\ LET r == tegra_wdt_ioctl(wdt, hw, "WDIOC_KEEPALIVE", 0, "rw")
       IN  /\ wdt' = r.w
           /\ hw' = r.h
           /\ last' = Call("WDIOC_KEEPALIVE", 0, r.ret, r.out)
    /\ UNCHANGED <<config, conc, res, registry, phase, sessions, opening, suspended>>

(* ------------------------------------------------------------------ *)
(* Interrupt handler                                                    *)
(* ------------------------------------------------------------------ *)
\* a handler that pings whoever owns the instance
tegra_wdt_interrupt_T2_always_pings(w, h) ==
    tegra_wdt_ping_T2([w EXCEPT !.irq_counter = w.irq_counter + 1], h)

\* a handler that stops the watchdog of a user who did not reload it
tegra_wdt_interrupt_T2_disarms(w, h) ==
    LET w1 == [w EXCEPT !.irq_counter = w.irq_counter + 1]
    IN  IF Has(w1.status, WDT_KERNEL_HEARTBEAT)
        THEN tegra_wdt_ping_T2(w1, h)
        ELSE [w |-> w1, h |-> disable_irq_nosync(tegra_wdt_disable_T2(h))]

tegra_wdt_interrupt_T2(w, h) ==
    LET w1 == [w EXCEPT !.irq_counter = w.irq_counter + 1]
    IN  IF Has(w1.status, WDT_KERNEL_HEARTBEAT)
        THEN tegra_wdt_ping_T2(w1, h)
        ELSE \* tasklet_schedule() only logs
             [w |-> w1, h |-> disable_irq_nosync(h)]

\* a per-instance handler that only warns
tegra_wdt_interrupt_instance_no_ping(w, h) == [w |-> w, h |-> h]

tegra_wdt_interrupt_instance(w, h) ==
    IF Has(w.status, WDT_KERNEL_HEARTBEAT)
    THEN tegra_wdt_ping_T3(w, h)
    ELSE [w |-> w, h |-> h]

\* the instance sits in tegra_wdt[pdev->id] when that is a slot of the array
Registered == pdev_id \in registry /\ pdev_id \in 0..(MAX_NR_CPU_WDT - 1)

\* a dispatcher that pings every enabled instance with a pending interrupt,
\* whoever owns it
tegra_wdt_interrupt_T3_pings_any_owner(w, h) ==
    IF Registered /\ Has(w.status, WDT_ENABLED) /\ h.intr_stat
    THEN tegra_wdt_ping_T3(w, h)
    ELSE [w |-> w, h |-> h]

\* readl(wdt->wdt_source + WDT_STATUS) & WDT_INTR_STAT
tegra_wdt_interrupt_T3(w, h) ==
    IF Registered /\ Has(w.status, WDT_ENABLED) /\ h.intr_stat
    THEN tegra_wdt_interrupt_instance(w, h)
    ELSE [w |-> w, h |-> h]

\* T2: the line is the timer's own, asserted while its interrupt is pending
\* and the line is not disabled.  T3: the line is shared, so the handler may
\* be entered at any time.
Interrupt ==
    /\ Live
    /\ res_irq
    /\ IF soc = "T2" THEN hw.pcr_intr /\ hw.depth = 0 ELSE TRUE
    /\ LET r == IF soc = "T2" THEN tegra_wdt_interrupt_T2(wdt, hw)
                              ELSE tegra_wdt_interrupt_T3(wdt, hw)
       IN  wdt' = r.w /\ hw' = r.h
    /\ last' = Call("irq", 0, 0, <<>>)
    /\ UNCHANGED <<config, conc, res, registry, phase, sessions, opening, suspended>>

(* ------------------------------------------------------------------ *)
(* Hardware: the timer period runs out                                  *)
(* ------------------------------------------------------------------ *)
\* T3 programs a quarter of the timeout: the fourth expiry resets
WDT_EXPIRIES == 4

\* T2: "the watchdog reset occurs when a second interrupt is asserted
\* before the first is processed"
ExpireT2(h) ==
    LET h1 == [h EXCEPT !.elapsed = Min(h.elapsed + 1, MaxElapsed)]
    IN  IF h.pcr_intr /\ Has(h.src, WDT_EN)
        THEN [h1 EXCEPT !.reset = TRUE]
        ELSE [h1 EXCEPT !.pcr_intr = TRUE]

ExpireT3(h) ==
    IF ~h.run
    THEN [h EXCEPT !.pcr_intr = TRUE]
    ELSE IF h.expc + 1 >= WDT_EXPIRIES
    THEN [h EXCEPT !.reset = TRUE]
    ELSE [h EXCEPT !.pcr_intr = TRUE, !.intr_stat = TRUE, !.expc = h.expc + 1]

Expire ==
    /\ phase = "probed" /\ ~hw.reset
    /\ TimerRunning(hw)
    /\ hw' = IF soc = "T2" THEN ExpireT2(hw) ELSE ExpireT3(hw)
    /\ last' = Call("expire", 0, 0, <<>>)
    /\ UNCHANGED <<config, conc, res, registry, phase, wdt, sessions, opening, suspended>>

(* ------------------------------------------------------------------ *)
(* Two threads in the session: the handlers statement by statement      *)
(* ------------------------------------------------------------------ *)
\* the statements of tegra_wdt_enable, in program order: "calc" reads
\* wdt->timeout into val, the others are one writel each
tegra_wdt_enable_code ==
    IF soc = "T2" THEN <<"calc", "ptv", "src_en">>
                  ELSE <<"pcr", "calc", "ptv", "cmd_start", "cfg">>

\* the statements of tegra_wdt_disable
tegra_wdt_disable_code ==
    IF soc = "T2" THEN <<"src0", "ptv0">>
                  ELSE <<"unlock_reg", "cmd_disable", "ptv0">>

\* the statements of tegra_wdt_ping; "ack_test" is if (wdt->irq_counter),
\* followed by the three statements of its block
tegra_wdt_ping_code ==
    IF soc = "T2"
    THEN tegra_wdt_enable_code \o <<"ack_test", "ack_pcr", "ack_clear", "ack_enable">>
    ELSE <<"cmd_start">>

\* the statements of tegra_wdt_interrupt.  Tegra 2: wdt->irq_counter++ is a
\* load and a store, then the ping or disable_irq_nosync.  Tegra 3:
\* "irq_status" reads WDT_STATUS and tests it with wdt->status, then the
\* ping of tegra_wdt_interrupt_instance.
tegra_wdt_interrupt_code ==
    IF soc = "T2"
    THEN <<"irq_load", "irq_store">>
            \o (IF Has(wdt.status, WDT_KERNEL_HEARTBEAT)
                THEN tegra_wdt_ping_code ELSE <<"irq_disable">>)
    ELSE <<"irq_status", "cmd_start">>

\* the statements of WDIOC_SETOPTIONS between spin_lock and spin_unlock
\* an option switch that takes every word without DISABLECARD as ENABLECARD
ioctl_setoptions_code_enables_by_default(option) ==
    IF Has(option, WDIOS_DISABLECARD) /\ ~nowayout
    THEN <<"status_dis">> \o tegra_wdt_disable_code
    ELSE tegra_wdt_enable_code \o <<"status_en">>

ioctl_setoptions_code(option) ==
    IF Has(option, WDIOS_DISABLECARD) /\ ~nowayout
    THEN <<"status_dis">> \o tegra_wdt_disable_code
    ELSE IF Has(option, WDIOS_ENABLECARD)
    THEN tegra_wdt_enable_code \o <<"status_en">>
    ELSE <<>>

\* the statements of a call, once its argument has been read; the call
\* returns with the last one
Code(op, arg) ==
    CASE op = "write" -> tegra_wdt_ping_code \o <<"way_out">>
      [] op = "WDIOC_KEEPALIVE" ->
            <<"spin_lock">> \o tegra_wdt_ping_code \o <<"spin_unlock">>
      [] op = "WDIOC_SETTIMEOUT" ->
            <<"spin_lock">> \o tegra_wdt_disable_code \o <<"set_timeout">>
               \o tegra_wdt_enable_code \o <<"spin_unlock", "put_user">>
      [] op = "WDIOC_SETOPTIONS" ->
            <<"spin_lock">> \o ioctl_setoptions_code(arg) \o <<"spin_unlock">>
      [] op = "irq" -> tegra_wdt_interrupt_code
      [] op = "WDIOC_GETTEMP" -> <<"switch_end">>     \* no case of the switch
      [] OTHER -> <<>>

\* the statements that program the hardware: the ping, arm and disarm
\* sequences
RegOps ==
    {"calc", "ptv", "src_en", "src0", "ptv0", "pcr", "cmd_start", "cfg",
     "unlock_reg", "cmd_disable", "ack_test", "ack_pcr", "ack_clear", "ack_enable"}

\* the statement thread t executes next
NextOp(t) ==
    IF thr[t].op = "none" THEN "none" ELSE Code(thr[t].op, thr[t].arg)[thr[t].pc + 1]

\* the instance after thread t has executed statement m
StmtWdt(m, t) ==
    CASE m = "set_timeout" ->
            [wdt EXCEPT !.timeout = clamp(thr[t].arg, MIN_WDT_PERIOD, MAX_WDT_PERIOD)]
      [] m = "status_dis" ->
            [wdt EXCEPT !.status = SetBit(ClrBit(wdt.status, WDT_ENABLED), WDT_DISABLED)]
      [] m = "status_en" ->
            [wdt EXCEPT !.status = ClrBit(SetBit(wdt.status, WDT_ENABLED), WDT_DISABLED)]
      [] m = "way_out" ->
            [wdt EXCEPT !.way_out_ok =
                IF thr[t].arg[Len(thr[t].arg)] = "V" THEN 1 ELSE 0]
      [] m = "ack_clear" -> [wdt EXCEPT !.irq_counter = 0]
      [] m = "irq_store" -> [wdt EXCEPT !.irq_counter = thr[t].val + 1]
      [] OTHER -> wdt

\* the hardware after thread t has executed statement m
StmtHw(m, t) ==
    CASE m = "ptv" -> WritePTV(hw, TimerWord(thr[t].val))
      [] m = "src_en" -> WriteSRC(hw, WDT_EN + WDT_SEL_TMR1 + WDT_SYS_RST)
      [] m = "src0" -> WriteSRC(hw, 0)
      [] m = "ptv0" -> WritePTV(hw, PtvZero)
      [] m = "pcr" -> WritePCR(hw)
      [] m = "cmd_start" -> WriteCMDStart(hw)
      [] m = "cfg" -> WriteCFG(hw, CfgWord)
      [] m = "unlock_reg" -> WriteUNLOCK(hw)
      [] m = "cmd_disable" -> WriteCMDDisable(hw)
      [] m = "ack_pcr" -> WritePCR(hw)
      [] m = "ack_enable" -> enable_irq(hw)
      [] m = "irq_disable" -> disable_irq_nosync(hw)
      [] OTHER -> hw

\* the local value thread t holds after statement m
StmtVal(m, t) ==
    CASE m = "calc" -> PeriodUs(wdt.timeout, IF soc = "T2" THEN 2 ELSE 4)
      [] m = "irq_load" -> wdt.irq_counter
      [] OTHER -> thr[t].val

\* how many statements the branch at m jumps over
StmtSkip(m) ==
    CASE m = "ack_test" /\ wdt.irq_counter = 0 -> 3
      [] m = "irq_status" /\ ~(/\ Registered
                               /\ Has(wdt.status, WDT_ENABLED)
                               /\ hw.intr_stat
                               /\ Has(wdt.status, WDT_KERNEL_HEARTBEAT)) -> 1
      [] OTHER -> 0

\* what the call of thread t returns
StmtRet(t) ==
    CASE thr[t].op = "write" -> Call("write", thr[t].arg, Len(thr[t].arg), <<>>)
      [] thr[t].op = "WDIOC_SETTIMEOUT" ->
            Call(thr[t].op, thr[t].arg, 0, <<wdt.timeout>>)
      [] thr[t].op = "WDIOC_SETOPTIONS" ->
            Call(thr[t].op, thr[t].arg,
                 IF ioctl_setoptions_code(thr[t].arg) = <<>> THEN 0 - EINVAL ELSE 0,
                 <<>>)
      [] thr[t].op = "WDIOC_GETTEMP" -> Call(thr[t].op, thr[t].arg, 0 - ENOTTY, <<>>)
      [] OTHER -> Call(thr[t].op, thr[t].arg, 0, <<>>)

\* the pings a thread issues: a write of one byte, WDIOC_KEEPALIVE
PingCalls ==
    {[op |-> "write", arg |-> <<"x">>], [op |-> "WDIOC_KEEPALIVE", arg |-> 0]}

\* the calls the second thread issues: a write of one byte, WDIOC_KEEPALIVE,
\* WDIOC_SETOPTIONS
OtherCalls ==
    {[op |-> "write", arg |-> <<"x">>], [op |-> "WDIOC_KEEPALIVE", arg |-> 0]}
      \cup {[op |-> "WDIOC_SETOPTIONS", arg |-> o] : o \in OptionWords}
      \cup {[op |-> "WDIOC_GETTEMP", arg |-> 0]}

\* thread "a" enters ioctl(WDIOC_SETTIMEOUT): get_user has read the request
CallSetTimeout ==
    /\ Live
    /\ sessions > 0
    /\ thr["a"].op = "none"
    /\ \E t \in TimeoutRequests :
          thr' = [thr EXCEPT !["a"] = [op |-> "WDIOC_SETTIMEOUT", arg |-> t,
                                       pc |-> 0, val |-> 0]]
    /\ UNCHANGED <<config, res, registry, phase, wdt, hw, sessions, opening, suspended, lock, last>>

\* thread "b" enters write or ioctl
CallOther ==
    /\ Live
    /\ sessions > 0
    /\ thr["b"].op = "none"
    /\ \E c \in OtherCalls :
          thr' = [thr EXCEPT !["b"] = [op |-> c.op, arg |-> c.arg,
                                       pc |-> 0, val |-> 0]]
    /\ UNCHANGED <<config, res, registry, phase, wdt, hw, sessions, opening, suspended, lock, last>>

\* a thread enters write or ioctl(WDIOC_KEEPALIVE)
CallPing ==
    /\ Live
    /\ sessions > 0
    /\ \E t \in Threads :
        \E c \in PingCalls :
          /\ thr[t].op = "none"
          /\ thr' = [thr EXCEPT ![t] = [op |-> c.op, arg |-> c.arg,
                                        pc |-> 0, val |-> 0]]
    /\ UNCHANGED <<config, res, registry, phase, wdt, hw, sessions, opening, suspended, lock, last>>

\* the interrupt handler is entered on another processor (the conditions
\* are those of Interrupt)
IrqEnter ==
    /\ Live
    /\ res_irq
    /\ thr["irq"].op = "none"
    /\ wdt.irq_counter < MaxIrqCounter
    /\ IF soc = "T2" THEN hw.pcr_intr /\ hw.depth = 0 ELSE TRUE
    /\ thr' = [thr EXCEPT !["irq"] = [op |-> "irq", arg |-> 0, pc |-> 0, val |-> 0]]
    /\ UNCHANGED <<config, res, registry, phase, wdt, hw, sessions, opening, suspended, lock, last>>

\* a context executes its next statement; spin_lock waits for the lock; with
\* the last statement the call returns
Step ==
    /\ Live
    /\ \E t \in Contexts :
          LET m    == NextOp(t)
              next == thr[t].pc + 1 + StmtSkip(m)
              done == next >= Len(Code(thr[t].op, thr[t].arg))
          IN  /\ thr[t].op # "none"
              /\ m = "spin_lock" => lock = "none"
              /\ wdt' = StmtWdt(m, t)
              /\ hw' = StmtHw(m, t)
              /\ lock' = IF m = "spin_lock" THEN t
                         ELSE IF m = "spin_unlock" THEN "none" ELSE lock
              /\ thr' = [thr EXCEPT ![t] =
                           IF done THEN ThrIdle
                           ELSE [@ EXCEPT !.pc = next, !.val = StmtVal(m, t)]]
              /\ last' = IF done THEN StmtRet(t) ELSE last
    /\ UNCHANGED <<config, res, registry, phase, sessions, opening, suspended>>

(* ------------------------------------------------------------------ *)
(* Specifications                                                       *)
(* ------------------------------------------------------------------ *)
Next ==
    \/ tegra_wdt_probe
    \/ OpenEnter
    \/ OpenReturn
    \/ Release
    \/ Write
    \/ Ioctl
    \/ Interrupt
    \/ Expire
    \/ tegra_wdt_notify
    \/ tegra_wdt_suspend
    \/ tegra_wdt_resume

Spec == Init /\ [][Next]_vars

\* the control protocol alone: no reboot notification, no suspend
NextProtocol ==
    \/ tegra_wdt_probe
    \/ OpenEnter
    \/ OpenReturn
    \/ Release
    \/ Write
    \/ Ioctl
    \/ Interrupt
    \/ Expire

SpecProtocol == Init /\ [][NextProtocol]_vars

\* a session that only pings: the timer is reloaded by open and by pings
NextPing ==
    \/ tegra_wdt_probe
    \/ OpenEnter
    \/ OpenReturn
    \/ Write
    \/ KeepAlive
    \/ Interrupt
    \/ Expire

SpecPing == Init /\ [][NextPing]_vars

\* sessions on a machine that suspends and resumes, with no reboot
NextPower ==
    \/ tegra_wdt_probe
    \/ OpenEnter
    \/ OpenReturn
    \/ Release
    \/ Write
    \/ Ioctl
    \/ tegra_wdt_suspend
    \/ tegra_wdt_resume

SpecPower == Init /\ [][NextPower]_vars

\* what the boot loader may leave behind: the watchdog off, or armed
BootHw == {HwOff, tegra_wdt_enable([WdtZero EXCEPT !.timeout = WDT_DEFAULT_TIME], HwOff)}

\* the driver is loaded on any build and any boot state
InitBoot ==
    /\ soc \in {"T2", "T3"}
    /\ hb_config \in BOOLEAN
    /\ nowayout \in BOOLEAN
    /\ heartbeat \in HeartbeatValues
    /\ pdev_id \in PlatformIds(soc)
    /\ res_irq \in BOOLEAN
    /\ fiq \in (IF soc = "T3" THEN BOOLEAN ELSE {FALSE})
    /\ res = <<>>
    /\ registry = {}
    /\ phase = "unprobed"
    /\ wdt = WdtZero
    /\ hw \in BootHw
    /\ sessions = 0
    /\ opening = FALSE
    /\ suspended = FALSE
    /\ lock = "none"
    /\ thr = [t \in Contexts |-> ThrIdle]
    /\ last = Call("load", 0, 0, <<>>)

\* the life of the platform device: probe, sessions, remove
NextProbe ==
    \/ tegra_wdt_probe
    \/ tegra_wdt_probe_fail
    \/ OpenEnter
    \/ OpenReturn
    \/ Release
    \/ tegra_wdt_remove

SpecProbe == InitBoot /\ [][NextProbe]_vars

\* the ids a board file may give the platform device: below, in and above
\* the range -1..3 the driver names
DeviceIds == {-2, -1, 0, 1, MAX_NR_CPU_WDT - 1, MAX_NR_CPU_WDT}

\* what the dispatcher does with an instance that was freed: the memory
\* may still hold the old fields, hold anything else, or fault when the
\* unmapped registers are read
StaleOutcomes == {"skip", "ping", "fault"}

\* tegra_wdt_interrupt entered for another instance of the shared line
\* after this one was removed: the loop reads tegra_wdt[i] of every
\* non-NULL slot, the slot of the freed instance included
tegra_wdt_interrupt_stale ==
    /\ soc = "T3"
    /\ phase = "removed"
    /\ Registered
    /\ \E o \in StaleOutcomes :
          /\ hw' = IF o = "ping" THEN WriteCMDStart(hw) ELSE hw
          /\ last' = Call("irq", 0, 0, <<o>>)
    /\ UNCHANGED <<config, conc, res, registry, phase, wdt, sessions, opening, suspended>>

\* the driver loaded for a device with any of the ids
InitRegistry ==
    /\ soc \in {"T2", "T3"}
    /\ hb_config \in BOOLEAN
    /\ nowayout \in BOOLEAN
    /\ heartbeat = WDT_DEFAULT_TIME
    /\ pdev_id \in DeviceIds
    /\ res_irq \in BOOLEAN
    /\ fiq = FALSE
    /\ res = <<>>
    /\ registry = {}
    /\ phase = "unprobed"
    /\ wdt = WdtZero
    /\ hw = HwOff
    /\ sessions = 0
    /\ opening = FALSE
    /\ suspended = FALSE
    /\ lock = "none"
    /\ thr = [t \in Contexts |-> ThrIdle]
    /\ last = Call("load", 0, 0, <<>>)

\* the life of the device and the shared interrupt after it
NextRegistry ==
    \/ NextProbe
    \/ tegra_wdt_interrupt_stale

SpecRegistry == InitRegistry /\ [][NextRegistry]_vars

\* one session used by two threads at once
NextRace ==
    \/ tegra_wdt_probe
    \/ OpenEnter
    \/ OpenReturn
    \/ CallSetTimeout
    \/ CallOther
    \/ Step

SpecRace == Init /\ [][NextRace]_vars

\* pings of a session and the interrupt handler on different processors
NextIrq ==
    \/ tegra_wdt_probe
    \/ OpenEnter
    \/ OpenReturn
    \/ CallPing
    \/ IrqEnter
    \/ Step
    \/ Expire

\* the Tegra 2 device with its interrupt and no kernel heartbeat
InitIrq ==
    /\ Init
    /\ soc = "T2"
    /\ ~hb_config
    /\ res_irq

SpecIrq == InitIrq /\ [][NextIrq]_vars

\* the driver loaded with any heartbeat of the documented range
InitPeriod ==
    /\ soc \in {"T2", "T3"}
    /\ hb_config \in BOOLEAN
    /\ nowayout \in BOOLEAN
    /\ heartbeat \in MIN_WDT_PERIOD..MAX_WDT_PERIOD
    /\ pdev_id \in PlatformIds(soc)
    /\ res_irq \in BOOLEAN
    /\ fiq = FALSE
    /\ res = <<>>
    /\ registry = {}
    /\ phase = "unprobed"
    /\ wdt = WdtZero
    /\ hw = HwOff
    /\ sessions = 0
    /\ opening = FALSE
    /\ suspended = FALSE
    /\ lock = "none"
    /\ thr = [t \in Contexts |-> ThrIdle]
    /\ last = Call("load", 0, 0, <<>>)

\* what arms with the heartbeat: probe of the heartbeat instance, open
NextPeriod ==
    \/ tegra_wdt_probe
    \/ OpenEnter
    \/ OpenReturn
    \/ KeepAlive
    \/ Release

SpecPeriod == InitPeriod /\ [][NextPeriod]_vars

(* ------------------------------------------------------------------ *)
(* Properties                                                           *)
(* ------------------------------------------------------------------ *)
\* the step is an open() being issued: its test_and_set_bit runs
OpenIssued == last'.op = "open_enter" \/ (last'.op = "open" /\ last'.ret # 0)

\* a session holds the instance: its open has won the bit and it has not
\* been released
SessionHeld == sessions > 0 \/ opening

\* the step is a completed release()
Released == last'.op = "close" /\ sessions' = sessions - 1

\* C1: at most one control session holds the instance at any time; an open
\* issued while a session holds it (also one whose own open has not returned
\* yet) returns -EBUSY, and an open issued while no session holds an
\* instance that is not heartbeat-owned wins the instance, in particular
\* the first open after a close.
C1_SingleSession ==
    [][ /\ sessions' + (IF opening' THEN 1 ELSE 0) <= 1
        /\ (OpenIssued /\ SessionHeld)
              => (last'.op = "open" /\ last'.ret = 0 - EBUSY /\ wdt' = wdt)
        /\ (OpenIssued /\ ~SessionHeld /\ ~Has(wdt.status, WDT_KERNEL_HEARTBEAT))
              => (last'.op = "open_enter" /\ opening' /\ wdt'.users = 1)
      ]_vars

\* a second open was refused while the open of a later session (timeout is
\* no longer the 0 of kzalloc, so an earlier session was opened and closed)
\* has won the bit and has not returned yet
C1_Witness ==
    /\ last.op = "open" /\ last.ret = 0 - EBUSY
    /\ opening
    /\ wdt.timeout # 0

\* C2: a close in a session whose way_out_ok is false changes neither the
\* hardware nor status nor timeout: it only clears users.
C2_UncleanCloseKeepsArmed ==
    [][ (Released /\ wdt.way_out_ok = 0)
           => /\ hw' = hw
              /\ wdt' = [wdt EXCEPT !.users = 0]
      ]_vars

\* a session whose way_out_ok was false has been closed, without nowayout,
\* and the instance is still armed and Enabled with users cleared
C2_Witness ==
    /\ last.op = "close"
    /\ ~nowayout
    /\ wdt.way_out_ok = 0
    /\ wdt.users = 0
    /\ Armed
    /\ Has(wdt.status, WDT_ENABLED)

\* C3: without nowayout, a close in a session whose way_out_ok is true
\* leaves the hardware disarmed and status = WDT_DISABLED.
\* (release does not write way_out_ok, so the state after the close still
\* shows the value the close saw)
C3_MagicCloseDisarms ==
    (last.op = "close" /\ ~nowayout /\ wdt.way_out_ok # 0)
        => (~Armed /\ wdt.status = WDT_DISABLED)

\* the instance has been opened at least once: timeout is written only by
\* open, by WDIOC_SETTIMEOUT (which needs a session) and, for the heartbeat
\* owner, by probe; kzalloc leaves it 0
Opened == wdt.timeout # 0 /\ ~Has(wdt.status, WDT_KERNEL_HEARTBEAT)

\* C4: with nowayout set, once the instance has been opened no sequence of
\* open, write, ioctl and close leaves the hardware disarmed or status
\* without WDT_ENABLED.
C4_NoWayOut ==
    (nowayout /\ Opened)
        => (Armed /\ Has(wdt.status, WDT_ENABLED))

\* under nowayout a session whose last write ended in 'V' was closed and the
\* hardware is armed
C4_Witness ==
    /\ nowayout
    /\ last.op = "close"
    /\ wdt.way_out_ok = 1
    /\ Armed
    /\ Has(wdt.status, WDT_ENABLED)

\* the value the claim expects for a request t
Clamped(t) ==
    IF t < MIN_WDT_PERIOD THEN MIN_WDT_PERIOD
    ELSE IF t > MAX_WDT_PERIOD THEN MAX_WDT_PERIOD
    ELSE t

\* C5: a successful WDIOC_SETTIMEOUT with request t stores Clamped(t) in
\* timeout and copies it out; a successful WDIOC_GETTIMEOUT copies timeout
\* out; and timeout changes only in WDIOC_SETTIMEOUT and in open, so every
\* WDIOC_GETTIMEOUT up to the next of those returns the applied value.
C5_SetTimeoutClamps ==
    [][ /\ (last'.op = "WDIOC_SETTIMEOUT" /\ last'.ret = 0)
              => /\ wdt'.timeout = Clamped(last'.arg)
                 /\ last'.out = <<Clamped(last'.arg)>>
        /\ (last'.op = "WDIOC_GETTIMEOUT" /\ last'.ret = 0)
              => last'.out = <<wdt.timeout>>
        /\ (last'.op \notin {"WDIOC_SETTIMEOUT", "open", "probe"})
              => wdt'.timeout = wdt.timeout
      ]_vars

\* WDIOC_GETTIMEOUT has returned MIN_WDT_PERIOD, which is not the heartbeat
\* and which no request of TimeoutRequests names: a request below the range
\* was applied as MIN_WDT_PERIOD and read back
C5_Witness ==
    /\ last.op = "WDIOC_GETTIMEOUT"
    /\ last.ret = 0
    /\ last.out = <<MIN_WDT_PERIOD>>
    /\ heartbeat # MIN_WDT_PERIOD

\* C6: status never holds WDT_DISABLED and WDT_ENABLED together.
C6_StatusExclusive ==
    phase = "probed"
        => ~(Has(wdt.status, WDT_DISABLED) /\ Has(wdt.status, WDT_ENABLED))

\* C7: whenever the hardware is armed, the timeout it is programmed from
\* lies in MIN_WDT_PERIOD .. MAX_WDT_PERIOD, whatever the heartbeat
\* parameter is.
C7_ArmedTimeoutInRange ==
    (phase = "probed" /\ Armed)
        => wdt.timeout \in MIN_WDT_PERIOD..MAX_WDT_PERIOD

\* C8: a successful open leaves users = 1, way_out_ok = 0, status =
\* WDT_ENABLED without WDT_DISABLED, timeout = heartbeat and the hardware
\* armed from that timeout.
C8_OpenPostcondition ==
    (last.op = "open" /\ last.ret = 0)
        => /\ wdt.users = 1
           /\ wdt.way_out_ok = 0
           /\ wdt.status = WDT_ENABLED
           /\ wdt.timeout = heartbeat
           /\ Armed
           /\ hw.ptv.period = PeriodUs(heartbeat, IF soc = "T2" THEN 2 ELSE 4)

\* the step is a write() of the buffer last'.arg
Wrote == last'.op = "write"

\* the hardware countdown has just been restarted
Restarted(h) ==
    IF soc = "T2" THEN h.ptv.en /\ h.elapsed = 0 /\ Has(h.src, WDT_EN)
                  ELSE h.run /\ h.expc = 0 /\ ~h.intr_stat

\* C9: way_out_ok is cleared by open, set by a successful non-empty write to
\* whether its last byte is 'V', and changed by nothing else; every
\* non-empty write restarts the countdown; a zero-length write changes
\* nothing.
C9_WayOutTracksLastWrite ==
    [][ /\ (last'.op = "open" /\ last'.ret = 0) => wdt'.way_out_ok = 0
        /\ (Wrote /\ Len(last'.arg) > 0 /\ last'.ret = Len(last'.arg))
              => wdt'.way_out_ok =
                    (IF last'.arg[Len(last'.arg)] = "V" THEN 1 ELSE 0)
        /\ (Wrote /\ Len(last'.arg) > 0) => Restarted(hw')
        /\ (Wrote /\ Len(last'.arg) = 0) => (wdt' = wdt /\ hw' = hw)
        /\ ~((last'.op = "open" /\ last'.ret = 0)
               \/ (Wrote /\ Len(last'.arg) > 0 /\ last'.ret = Len(last'.arg)))
              => wdt'.way_out_ok = wdt.way_out_ok
      ]_vars

\* a successful write of "xV" in an open session has left way_out_ok set:
\* the last byte decides, not the first
C9_Witness ==
    /\ last.op = "write"
    /\ last.arg = <<"x", "V">>
    /\ last.ret = 2
    /\ wdt.way_out_ok = 1
    /\ sessions = 1

\* C10: on a user-owned Tegra 2 instance armed with a timeout of the
\* documented range, the reset fires only when two timer periods (one whole
\* timeout) have run out since the last ping reloaded the timer, also when
\* the handler of the first expiry (irq_counter counts it) ran after that
\* ping.
C10_TimelyPingsPreventReset ==
    (/\ soc = "T2"
     /\ ~Has(wdt.status, WDT_KERNEL_HEARTBEAT)
     /\ wdt.timeout \in MIN_WDT_PERIOD..MAX_WDT_PERIOD
     /\ wdt.irq_counter > 0
     /\ hw.reset)
        => hw.elapsed >= 2

\* the instance is owned by the kernel heartbeat
HeartbeatOwned == Has(wdt.status, WDT_KERNEL_HEARTBEAT)

\* C11: on a user-owned Tegra 2 instance the interrupt handler only counts
\* the interrupt and disables the line: it acknowledges nothing and reloads
\* nothing, so the timer interrupt stays pending and the countdown goes on;
\* the next expiry of the timer, with no ping in between (irq_counter still
\* counts the interrupt), resets the machine.
C11_UserOwnedNoSelfHeal ==
    [][ (soc = "T2" /\ ~HeartbeatOwned)
          => /\ last'.op = "irq"
                  => /\ hw' = [hw EXCEPT !.depth = hw.depth + 1]
                     /\ hw'.pcr_intr
                     /\ wdt' = [wdt EXCEPT !.irq_counter = wdt.irq_counter + 1]
             /\ (last'.op = "expire" /\ wdt.irq_counter > 0) => hw'.reset
      ]_vars

\* a user-owned Tegra 2 instance was reset by the expiry that followed a
\* handled interrupt: the line is disabled and the interrupt still counted
C11_Witness ==
    /\ soc = "T2"
    /\ ~HeartbeatOwned
    /\ sessions = 1
    /\ last.op = "expire"
    /\ wdt.irq_counter = 1
    /\ hw.depth = 1
    /\ hw.reset

\* the handler has acknowledged the expiry and restarted the countdown
Acknowledged(h) ==
    IF soc = "T2" THEN ~h.pcr_intr /\ h.depth = 0 ELSE ~h.intr_stat /\ h.expc = 0

\* C12: on a heartbeat-owned armed instance every run of the interrupt
\* handler acknowledges the expiry and restarts the countdown, and the
\* expiry that follows a run of the handler never resets the machine; no
\* write and no ioctl is involved (the heartbeat owner holds users, so no
\* session exists).
C12_HeartbeatSelfPings ==
    [][ (HeartbeatOwned /\ Armed)
          => /\ sessions = 0 /\ ~opening
             /\ last'.op = "irq"
                  => (Armed' /\ Restarted(hw') /\ Acknowledged(hw'))
             /\ (last.op = "irq" /\ last'.op = "expire") => ~hw'.reset
      ]_vars

\* on a heartbeat-owned instance the handler has run after an expiry (on
\* Tegra 2 it is entered only with the timer interrupt pending) and the
\* countdown is restarted with nothing pending
C12_Witness ==
    /\ soc = "T2"
    /\ HeartbeatOwned
    /\ last.op = "irq"
    /\ Armed
    /\ Restarted(hw)
    /\ ~hw.pcr_intr
    /\ ~hw.reset

\* C13: a WDIOC_SETTIMEOUT that returns an error leaves the instance
\* (timeout, status) and the hardware as they were.
C13_FailedSetTimeoutNoChange ==
    [][ (last'.op = "WDIOC_SETTIMEOUT" /\ last'.ret # 0)
           => (wdt' = wdt /\ hw' = hw)
      ]_vars

\* C14: a write that returns -EFAULT changes neither the instance
\* (way_out_ok, status, timeout, irq_counter) nor the hardware (interrupt
\* line, countdown).
C14_FailedWriteNoChange ==
    [][ (Wrote /\ last'.ret = 0 - EFAULT)
           => (wdt' = wdt /\ hw' = hw)
      ]_vars

\* the step is a ping: a non-empty write or WDIOC_KEEPALIVE
Pinged ==
    \/ Wrote /\ Len(last'.arg) > 0
    \/ last'.op = "WDIOC_KEEPALIVE"

\* C15: a ping leaves status as it was, and hardware that was disarmed
\* before the ping is disarmed after it.
C15_PingKeepsEnableState ==
    [][ Pinged
          => /\ wdt'.status = wdt.status
             /\ ~Armed => ~Armed'
      ]_vars

\* the step is a successful WDIOC_SETOPTIONS
SetOptionsDone == last'.op = "WDIOC_SETOPTIONS" /\ last'.ret = 0

\* the fields WDIOC_SETOPTIONS has no business with
OptionsFrame ==
    /\ wdt'.timeout = wdt.timeout
    /\ wdt'.way_out_ok = wdt.way_out_ok
    /\ wdt'.users = wdt.users
    /\ Has(wdt'.status, WDT_KERNEL_HEARTBEAT) = Has(wdt.status, WDT_KERNEL_HEARTBEAT)

\* C16: without nowayout a successful WDIOC_SETOPTIONS with
\* WDIOS_DISABLECARD leaves status with WDT_DISABLED and without
\* WDT_ENABLED and the hardware disarmed; a successful one with
\* WDIOS_ENABLECARD (and no WDIOS_DISABLECARD) leaves status with
\* WDT_ENABLED and without WDT_DISABLED and the hardware armed from the
\* current timeout; both leave timeout, way_out_ok and
\* WDT_KERNEL_HEARTBEAT alone.
C16_SetOptionsToggles ==
    [][ /\ (SetOptionsDone /\ Has(last'.arg, WDIOS_DISABLECARD) /\ ~nowayout)
              => /\ Has(wdt'.status, WDT_DISABLED)
                 /\ ~Has(wdt'.status, WDT_ENABLED)
                 /\ ~Armed'
                 /\ OptionsFrame
        /\ (SetOptionsDone /\ Has(last'.arg, WDIOS_ENABLECARD)
                           /\ ~Has(last'.arg, WDIOS_DISABLECARD))
              => /\ Has(wdt'.status, WDT_ENABLED)
                 /\ ~Has(wdt'.status, WDT_DISABLED)
                 /\ Armed'
                 /\ hw'.ptv.period = PeriodUs(wdt.timeout, IF soc = "T2" THEN 2 ELSE 4)
                 /\ OptionsFrame
      ]_vars

\* WDIOS_ENABLECARD has left status = WDT_ENABLED alone (open leaves
\* WDT_DISABLED beside it, so the bit was cleared here) and the hardware
\* armed, in a session without nowayout
C16_Witness ==
    /\ last.op = "WDIOC_SETOPTIONS"
    /\ last.arg = WDIOS_ENABLECARD
    /\ last.ret = 0
    /\ ~nowayout
    /\ wdt.status = WDT_ENABLED
    /\ Armed

\* C17: under nowayout every WDIOC_SETOPTIONS whose option word holds
\* WDIOS_DISABLECARD returns an error and leaves status and the armed state
\* of the hardware as they were.
C17_NoWayOutRefusesDisable ==
    [][ (nowayout /\ last'.op = "WDIOC_SETOPTIONS"
                  /\ Has(last'.arg, WDIOS_DISABLECARD))
           => /\ last'.ret < 0
              /\ wdt'.status = wdt.status
              /\ Armed' = Armed
      ]_vars

\* C20: suspend disarms the hardware and leaves the instance (status,
\* timeout) alone; the resume that follows leaves the instance alone and
\* re-arms the hardware from the same timeout iff status holds WDT_ENABLED;
\* after the resume the hardware is armed iff it was armed when suspend was
\* called.
C20_SuspendResumeRestores ==
    [][ /\ last'.op = "suspend" => (~Armed' /\ wdt' = wdt)
        /\ last'.op = "resume"
             => /\ last.op = "suspend"
                /\ wdt' = wdt
                /\ Armed' = Has(wdt.status, WDT_ENABLED)
                /\ Armed' => hw'.ptv.period =
                                PeriodUs(wdt.timeout, IF soc = "T2" THEN 2 ELSE 4)
                /\ Armed' = (last.arg = 1)
      ]_vars

\* no call is in progress
AllReturned == \A t \in Threads : thr[t].op = "none"

\* thread t is about to program the hardware
Programming(t) == NextOp(t) \in RegOps

\* WDIOC_SETTIMEOUT holds the lock and has the hardware disarmed
SetTimeoutWindow ==
    thr["a"].op = "WDIOC_SETTIMEOUT" /\ lock = "a" /\ ~TimerRunning(hw)

\* C18: WDIOC_SETTIMEOUT is atomic against a concurrent write,
\* WDIOC_KEEPALIVE or WDIOC_SETOPTIONS: once every call has returned, a
\* running timer holds the period derived from the current timeout, and
\* while WDIOC_SETTIMEOUT has the hardware disarmed no other thread is
\* programming it.
C18_SetTimeoutAtomic ==
    /\ (AllReturned /\ sessions > 0 /\ TimerRunning(hw))
          => hw.ptv.period = PeriodUs(wdt.timeout, IF soc = "T2" THEN 2 ELSE 4)
    /\ SetTimeoutWindow => ~Programming("b")

\* C19: a thread programs the hardware (ping, arm, disarm) only while it
\* holds the lock, so two threads are never programming it at once.
C19_SequencesHoldLock ==
    /\ \A t \in Threads : Programming(t) => lock = t
    /\ ~(Programming("a") /\ Programming("b"))

\* C21: the reboot notifier called with SYS_DOWN or SYS_HALT leaves the
\* hardware disarmed, with or without a session, whatever nowayout,
\* way_out_ok and WDT_KERNEL_HEARTBEAT are; called with any other code it
\* leaves the hardware alone; it never touches the instance.
C21_NotifyDisarms ==
    [][ last'.op = "notify"
          => /\ wdt' = wdt
             /\ last'.arg \in {SYS_DOWN, SYS_HALT}
                   => (~Armed' /\ ~TimerRunning(hw'))
             /\ last'.arg \notin {SYS_DOWN, SYS_HALT} => hw' = hw
      ]_vars

\* SYS_DOWN has disarmed the hardware under an open nowayout session whose
\* status still holds WDT_ENABLED
C21_Witness ==
    /\ last.op = "notify"
    /\ last.arg = SYS_DOWN
    /\ nowayout
    /\ sessions = 1
    /\ Has(wdt.status, WDT_ENABLED)
    /\ ~Armed

\* how often the log holds the entry e
Count(e) == Cardinality({i \in 1..Len(res) : res[i] = e})

\* the resources a driver can hold
ResourceNames == {Resources[i] : i \in 1..Len(Resources)}

\* everything the log acquired it released once, and it released nothing
\* else
AllReleasedOnce == \A r \in ResourceNames : Count(Rel(r)) = Count(Acq(r))

C23_ProbeFailureUnwinds ==
    phase = "failed" => AllReleasedOnce

\* C24: a probe in which a request failed returns a non-zero error code;
\* after a probe that returned 0 the instance is probed and holds
\* everything it acquired.
C24_ProbeFailureReturnsError ==
    /\ phase = "failed" => last.ret # 0
    /\ (last.op = "probe" /\ last.ret = 0)
          => /\ phase = "probed"
             /\ \A r \in ResourceNames : Count(Rel(r)) = 0

\* C25: remove disarms the hardware before it releases anything, and then
\* releases what probe acquired, each once and nothing else: the interrupt
\* iff probe requested one.
C25_RemoveReleasesAcquired ==
    phase = "removed"
        => /\ ~Armed
           /\ \A i, j \in 1..Len(res) :
                 (res[i] = HwDisable /\ res[j].k = "rel") => i < j
           /\ Count(HwDisable) = 1
           /\ AllReleasedOnce
           /\ Count(Rel("irq")) = (IF res_irq THEN 1 ELSE 0)

\* no context is inside driver code
Quiet == \A t \in Contexts : thr[t].op = "none"

\* C26: on Tegra 2, however the interrupt handler and the pings of
\* concurrent threads interleave, once all of them have returned the line
\* is not disabled with irq_counter = 0 (no later ping would enable it
\* again).
C26_LineNeverLostDisabled ==
    (soc = "T2" /\ Quiet) => ~(hw.depth > 0 /\ wdt.irq_counter = 0)

\* C27: a run of the interrupt handler, on either variant and whoever owns
\* the instance, leaves armed hardware armed and leaves status, timeout,
\* users and way_out_ok (and the sessions) as they were.
C27_InterruptNeverDisarms ==
    [][ last'.op = "irq"
          => /\ Armed => Armed'
             /\ wdt'.status = wdt.status
             /\ wdt'.timeout = wdt.timeout
             /\ wdt'.users = wdt.users
             /\ wdt'.way_out_ok = wdt.way_out_ok
             /\ sessions' = sessions
      ]_vars

\* the handler has run on a user-owned armed Tegra 2 instance: the expiry
\* is counted, the line is disabled and the watchdog still counts
C27_Witness ==
    /\ soc = "T2"
    /\ ~HeartbeatOwned
    /\ sessions = 1
    /\ last.op = "irq"
    /\ wdt.irq_counter = 1
    /\ hw.depth = 1
    /\ Armed
    /\ ~hw.reset

\* the condition under which the Tegra 3 dispatcher pings the instance
DispatchCondition ==
    /\ pdev_id \in 0..(MAX_NR_CPU_WDT - 1)
    /\ Has(wdt.status, WDT_ENABLED)
    /\ Has(wdt.status, WDT_KERNEL_HEARTBEAT)
    /\ hw.intr_stat

\* C28: a run of the Tegra 3 dispatcher restarts the counter of the
\* instance (which clears its interrupt status) if the instance is
\* registered, its status holds Enabled and KernelHeartbeat and its status
\* register shows an interrupt pending; otherwise it writes no register of
\* the instance.  It writes no field of the instance either way.
C28_DispatcherPingsIff ==
    [][ (soc = "T3" /\ last'.op = "irq")
          => /\ wdt' = wdt
             /\ IF DispatchCondition
                THEN hw' = [hw EXCEPT !.run = TRUE, !.expc = 0,
                                      !.intr_stat = FALSE, !.unlocked = FALSE]
                ELSE hw' = hw
      ]_vars

\* the dispatcher has pinged a heartbeat-owned Tegra 3 instance after an
\* expiry: the timer's interrupt is still latched, the watchdog's interrupt
\* status is cleared and the expiry count is back at zero
C28_Witness ==
    /\ soc = "T3"
    /\ HeartbeatOwned
    /\ last.op = "irq"
    /\ hw.pcr_intr
    /\ ~hw.intr_stat
    /\ hw.expc = 0
    /\ hw.run

\* C29: on Tegra 3, whenever a thread is about to write the disable-counter
\* command, the last write to the instance's counter block was the unlock
\* pattern, whatever the other thread (a write, an ioctl) does in between.
C29_DisableFollowsUnlock ==
    \A t \in Threads :
        (soc = "T3" /\ NextOp(t) = "cmd_disable") => hw.unlocked

\* statement m is among the first n statements of the call thread t is in
Executed(t, m, n) ==
    \E i \in 1..n : Code(thr[t].op, thr[t].arg)[i] = m

\* thread t is in a call that arms the Tegra 3 watchdog
Arming(t) ==
    /\ soc = "T3"
    /\ thr[t].op # "none"
    /\ Executed(t, "cfg", Len(Code(thr[t].op, thr[t].arg)))

\* C30: on Tegra 3, a thread in a call that arms the watchdog writes the
\* start-counter command only after it has written the configuration
\* word of that call.
C30_ConfigBeforeStart ==
    \A t \in Threads :
        (Arming(t) /\ NextOp(t) = "cmd_start") => Executed(t, "cfg", thr[t].pc)

\* the divisor of the timer period: the second (Tegra 2) or the fourth
\* (Tegra 3) expiry resets
PeriodDivisor == IF soc = "T2" THEN 2 ELSE 4

\* C31: whenever the hardware is armed with a timeout in 5..1000, the PTV
\* word holds exactly timeout * 1000000 / 2 (Tegra 2) or / 4 (Tegra 3)
\* microseconds, a value below 2^30, next to the enable and periodic bits:
\* nothing of the product was lost to 32-bit arithmetic or to bits 31 and 30.
C31_PeriodExact ==
    (/\ phase = "probed"
     /\ Armed
     /\ wdt.timeout \in MIN_WDT_PERIOD..MAX_WDT_PERIOD)
        => /\ hw.ptv.en /\ hw.ptv.periodic
           /\ hw.ptv.period = wdt.timeout * (1000000 \div PeriodDivisor)
           /\ hw.ptv.period < TIMER_PERIOD_SPAN

\* an open has armed Tegra 2 with the largest timeout of the range and the
\* timer is programmed with 500 seconds
C31_Witness ==
    /\ soc = "T2"
    /\ last.op = "open"
    /\ sessions = 1
    /\ wdt.timeout = MAX_WDT_PERIOD
    /\ Armed
    /\ hw.ptv.period = 500000000

\* thread t is in an ioctl the driver does not know
UnknownCommand(t) == thr[t].op = "WDIOC_GETTEMP"

\* thread t is in SETOPTIONS with neither DISABLECARD nor ENABLECARD
EmptyOptions(t) ==
    /\ thr[t].op = "WDIOC_SETOPTIONS"
    /\ ~Has(thr[t].arg, WDIOS_DISABLECARD)
    /\ ~Has(thr[t].arg, WDIOS_ENABLECARD)

\* C32: no statement of an unknown ioctl or of a SETOPTIONS without
\* DISABLECARD and ENABLECARD changes the instance (status, timeout,
\* way_out_ok) or the hardware; the first returns -ENOTTY, the second
\* -EINVAL, and the returning thread does not hold the lock.
C32_RejectedIoctlNoEffect ==
    [][ \A t \in Threads :
          ((UnknownCommand(t) \/ EmptyOptions(t)) /\ thr'[t] # thr[t])
             => /\ wdt' = wdt
                /\ hw' = hw
                /\ thr'[t].op = "none"
                     => /\ lock' # t
                        /\ last'.op = thr[t].op
                        /\ last'.ret = IF UnknownCommand(t) THEN 0 - ENOTTY
                                                            ELSE 0 - EINVAL
      ]_vars

\* SETOPTIONS with the option word 0 has returned -EINVAL on an armed
\* instance and the lock is free
C32_Witness ==
    /\ last.op = "WDIOC_SETOPTIONS"
    /\ last.arg = 0
    /\ last.ret = 0 - EINVAL
    /\ thr["b"].op = "none"
    /\ lock = "none"
    /\ Has(wdt.status, WDT_ENABLED)
    /\ Armed

\* C33: an instance with KernelHeartbeat in its status has exactly Enabled
\* and KernelHeartbeat there and keeps both; every open on it returns
\* -EBUSY, so it never has a session.
C33_HeartbeatNeverOpened ==
    [][ /\ HeartbeatOwned' => wdt'.status = WDT_ENABLED + WDT_KERNEL_HEARTBEAT
        /\ HeartbeatOwned
             => /\ HeartbeatOwned'
                /\ last'.op # "open_enter"
                /\ last'.op = "open" => last'.ret = 0 - EBUSY
                /\ sessions' = 0
                /\ ~opening'
      ]_vars

\* an open on the heartbeat-owned instance has returned -EBUSY
C33_Witness ==
    /\ HeartbeatOwned
    /\ last.op = "open"
    /\ last.ret = 0 - EBUSY
    /\ wdt.status = WDT_ENABLED + WDT_KERNEL_HEARTBEAT
    /\ sessions = 0

\* C34: between the calls of the control protocol (open, write, ioctl,
\* close; no suspend, no reboot notification) the hardware is armed exactly
\* when status holds Enabled.
C34_ArmedIffEnabled ==
    (phase = "probed" /\ ~opening) => (Armed <=> Has(wdt.status, WDT_ENABLED))

\* C35: an open that returns -EBUSY leaves the instance (way_out_ok,
\* status, timeout, users), the hardware and the sessions as they were.
C35_BusyOpenNoEffect ==
    [][ (last'.op = "open" /\ last'.ret = 0 - EBUSY)
          => /\ wdt' = wdt
             /\ hw' = hw
             /\ sessions' = sessions
             /\ opening' = opening
      ]_vars

\* an open has failed with -EBUSY while a session that wrote the magic
\* character holds the armed device
C35_Witness ==
    /\ last.op = "open"
    /\ last.ret = 0 - EBUSY
    /\ sessions = 1
    /\ wdt.way_out_ok = 1
    /\ Armed

\* the reboot notifier has just disarmed the hardware
NotifierDisarmed ==
    /\ last.op = "notify"
    /\ last.arg \in {SYS_DOWN, SYS_HALT}
    /\ ~Armed

\* C36: a ping (a write of at least one byte, WDIOC_KEEPALIVE, the
\* interrupt handler of a heartbeat-owned instance) that follows the
\* disarming by the reboot notifier leaves the hardware disarmed.
C36_NoRearmAfterNotify ==
    [][ (NotifierDisarmed /\ (Pinged \/ (last'.op = "irq" /\ HeartbeatOwned)))
          => ~Armed'
      ]_vars

\* C37: on Tegra 2 enable_irq is never called on a line that no
\* disable_irq_nosync holds disabled, that is, at no point of any run have
\* there been more line enables than line disables.
C37_EnablesNeverExceedDisables == soc = "T2" => ~hw.unbalanced

\* C38: once a Tegra 3 instance is removed, tegra_wdt[] does not point to
\* it and the dispatcher of the shared interrupt does not touch it.
C38_RemovedNotInRegistry ==
    (soc = "T3" /\ phase = "removed" /\ pdev_id \in 0..(MAX_NR_CPU_WDT - 1))
        => (pdev_id \notin registry /\ last.op # "irq")

\* C39: tegra_wdt[] is written only at the indices 0..3 (so never at -1),
\* and a probe of a device whose id is outside -1..3 returns an error
\* with nothing acquired.
C39_RegistryIndexInRange ==
    /\ registry \subseteq 0..(MAX_NR_CPU_WDT - 1)
    /\ (pdev_id \notin -1..(MAX_NR_CPU_WDT - 1) /\ last.op = "probe")
          => (last.ret < 0 /\ res = <<>> /\ phase = "unprobed")

====
